---- MODULE Spec2Model ----
(***************************************************************************)
(* A model of gancio_py.client.Gancio and gancio_py.exceptions.GancioError *)
(* One caller drives one client: it calls a public operation (one action   *)
(* per operation, the whole method body including the HTTP exchange) and   *)
(* then picks up the result (Continue).  The server is the environment:    *)
(* every response is drawn from a bounded set of status codes and bodies.  *)
(***************************************************************************)
EXTENDS Integers, Sequences, FiniteSets, TLC

VARIABLES
    urlArg,         \* the url argument the constructor was given
    url,            \* self.url
    access_token,   \* self.access_token
    refresh_token,  \* self.refresh_token
    pc,             \* the caller: "ready" to call, or "done" with a result
    op,             \* name of the operation just called ("" when ready)
    args,           \* its arguments, parameter name -> Python value
    sent,           \* the HTTP requests the call issued, in order
    received,       \* the HTTP responses the call received, in order
    outcome,        \* what the call returned or raised
    lastLogin       \* history: tokens of the latest login that returned

vars == <<urlArg, url, access_token, refresh_token, pc, op, args,
          sent, received, outcome, lastLogin>>

---------------------------------------------------------------------------
(* Bounds of the model *)

\* longest base URL handed to the constructor, in characters
MaxUrlLen == 3

\* longest list of places a search answers with
MaxResults == 2

\* most optional parameters of one call that are given a falsy value
MaxFalsy == 1

---------------------------------------------------------------------------
(* Python values *)

\* None, where a parameter or a field holds an optional value
None == "None"

\* Python literals that test false in `if x`
FalsyValues == {None, "0", "0.0", "''", "[]", "{}", "False", "b''"}

\* bool(v) of a parameter value given as a Python literal
Truthy(v) == v \notin FalsyValues

\* bool(s) of an optional str given by its content
TruthyStr(s) == s # None /\ s # ""

\* variant of IsNotNone: a truth test, `if v:`
IsNotNoneBuggy(v) == Truthy(v)

\* `v is not None`
IsNotNone(v) == v # None

\* {}
EmptyDict == [k \in {} |-> ""]

\* d[k] = v
SetItem(d, k, v) == (k :> v) @@ d

\* if c: d[k] = v
SetIf(c, d, k, v) == IF c THEN SetItem(d, k, v) ELSE d

\* json.dumps(v): a str holding the JSON text of v
JsonDumps(v) == "'" \o v \o "'"

\* variant of RStrip: removes one trailing slash only
RStripOnce(u) ==
    IF u # <<>> /\ u[Len(u)] = "/" THEN SubSeq(u, 1, Len(u) - 1) ELSE u

\* str.rstrip("/") on a sequence of characters
RECURSIVE RStrip(_)
RStrip(u) ==
    IF u # <<>> /\ u[Len(u)] = "/" THEN RStrip(SubSeq(u, 1, Len(u) - 1)) ELSE u

---------------------------------------------------------------------------
(* Bounded inputs *)

RECURSIVE SeqsUpTo(_, _)
\* every sequence over S of length at most n
SeqsUpTo(S, n) ==
    IF n = 0 THEN {<<>>}
    ELSE LET shorter == SeqsUpTo(S, n - 1)
         IN  shorter \cup {Append(s, x) : s \in shorter, x \in S}

RECURSIVE SubsetsUpTo(_, _)
\* every subset of S with at most n elements
SubsetsUpTo(S, n) ==
    IF n = 0 THEN {{}}
    ELSE LET smaller == SubsetsUpTo(S, n - 1)
         IN  smaller \cup {T \cup {x} : T \in smaller, x \in S}

\* base URLs, as sequences of characters
Urls == SeqsUpTo({"h", "/"}, MaxUrlLen)

\* access tokens the constructor may be given
CtorTokens == {None, "", "t1"}

\* HTTP status codes the server answers with (valid codes, 100..599)
Statuses == {200, 399, 400, 404, 500}

\* place names
PlaceNames == {"A", "B"}

\* A response body is its text.  kind "raw": not JSON; "list": a JSON array
\* of places; "object": a JSON object with the given string fields.
RawBody == [kind |-> "raw", items |-> <<>>, fields |-> EmptyDict]
ListBody(l) == [kind |-> "list", items |-> l, fields |-> EmptyDict]
ObjectBody(f) == [kind |-> "object", items |-> <<>>, fields |-> f]

\* bodies of the operations that answer with one JSON object
GenericBodies == {RawBody, ObjectBody([id |-> "7"])}

\* bodies of GET /api/place
PlaceBodies ==
    {RawBody} \cup
    {ListBody(l) : l \in SeqsUpTo({[name |-> n] : n \in PlaceNames}, MaxResults)}

\* bodies of POST /oauth/login: any of the three fields may be missing
LoginBodies ==
    {RawBody} \cup
    {ObjectBody([k \in K |->
         CASE k = "access_token" -> a
           [] k = "refresh_token" -> r
           [] OTHER -> "admin"]) :
       K \in SUBSET {"access_token", "refresh_token", "username"},
       a \in {"", "t1", "t2"}, r \in {"r1", "r2"}}

Responses(bodies) == [status_code : Statuses, text : bodies]

---------------------------------------------------------------------------
(* exceptions.py *)

\* GancioError(response): the two fields a caller inspects
GancioError(response) ==
    [status_code |-> response.status_code, response_body |-> response.text]

---------------------------------------------------------------------------
(* What a call does: requests sent, responses received, result *)

Return(v) == [kind |-> "return", exc |-> "", value |-> <<v>>, error |-> <<>>]
ReturnNone == [kind |-> "return", exc |-> "", value |-> <<>>, error |-> <<>>]
Raise(e) ==
    [kind |-> "raise", exc |-> "GancioError", value |-> <<>>, error |-> <<e>>]
RaiseOther(name) ==
    [kind |-> "raise", exc |-> name, value |-> <<>>, error |-> <<>>]
NoOutcome == [kind |-> "", exc |-> "", value |-> <<>>, error |-> <<>>]

\* the client object
Self == [url |-> url, access_token |-> access_token,
         refresh_token |-> refresh_token]

\* Gancio(url, access_token)
Gancio(u, token) ==
    [url |-> RStrip(u), access_token |-> token, refresh_token |-> None]

---------------------------------------------------------------------------
(* Gancio._request *)

\* **kwargs of _request; a keyword that is not passed is an empty mapping
NoKwargs == [headers |-> EmptyDict, params |-> EmptyDict, data |-> EmptyDict,
             json |-> EmptyDict, files |-> EmptyDict]

\* variant of Ok: only a 5xx status counts as a failure
OkUnlessServerError(response) == response.status_code < 500

\* response.ok of the requests library: no 4xx and no 5xx status
Ok(response) ==
    ~(400 <= response.status_code /\ response.status_code < 600)

\* variant of AuthHeaders: `if self.access_token is not None:`
AuthHeadersAlways(self, headers) ==
    IF self.access_token # None
    THEN SetItem(headers, "Authorization", "Bearer " \o self.access_token)
    ELSE headers

\* headers = kwargs.pop('headers', {}); if self.access_token: headers[...] = ...
AuthHeaders(self, headers) ==
    SetIf(TruthyStr(self.access_token), headers,
          "Authorization", "Bearer " \o self.access_token)

\* the request requests.request(method, f"{self.url}{path}", headers, **kwargs) sends
HttpRequest(self, method, path, kwargs) ==
    [method |-> method,
     url |-> self.url \o <<path>>,
     headers |-> AuthHeaders(self, kwargs.headers),
     params |-> kwargs.params,
     data |-> kwargs.data,
     json |-> kwargs.json,
     files |-> kwargs.files]

\* _request(method, path, **kwargs), answered by `response`: the request sent,
\* and either the response handed back or the GancioError raised
Request(self, method, path, kwargs, response) ==
    [request |-> HttpRequest(self, method, path, kwargs),
     response |-> response,
     raised |-> ~Ok(response),
     error |-> GancioError(response)]

\* response.json(): the decoded body (a raw body does not decode)
IsJson(text) == text.kind # "raw"
Json(text) == IF text.kind = "list" THEN text.items ELSE text.fields

\* variant of Ran: a failed request makes the client forget its token
RanDroppingToken(self, r, o) ==
    [self |-> IF r.raised THEN [self EXCEPT !.access_token = None] ELSE self,
     sent |-> <<r.request>>, received |-> <<r.response>>, outcome |-> o]

\* a call that issued the one request r and ended with outcome o
Ran(self, r, o) ==
    [self |-> self, sent |-> <<r.request>>, received |-> <<r.response>>,
     outcome |-> o]

\* `return self._request(...).json()`
JsonOutcome(r) ==
    IF r.raised THEN Raise(r.error)
    ELSE IF ~IsJson(r.response.text) THEN RaiseOther("JSONDecodeError")
    ELSE Return(Json(r.response.text))

\* `self._request(...)` with nothing returned
NoneOutcome(r) == IF r.raised THEN Raise(r.error) ELSE ReturnNone

---------------------------------------------------------------------------
(* Setup, auth, user *)

\* setup_db(dialect, storage)
SetupDbRun(self, a, response) ==
    LET db0 == [dialect |-> a.dialect]
        db == SetIf(a.dialect = "'sqlite'", db0, "storage", a.storage)
        r == Request(self, "POST", "/api/setup/db",
                     [NoKwargs EXCEPT !.json = [db |-> db]], response)
    IN  Ran(self, r, NoneOutcome(r))

\* setup_restart()
SetupRestartRun(self, a, response) ==
    LET r == Request(self, "POST", "/api/setup/restart", NoKwargs, response)
    IN  Ran(self, r, JsonOutcome(r))

\* variant of LoginRun: the two tokens are stored in each other's field,
\* and only once all three fields were read
LoginRunSwapped(self, a, response) ==
    LET r == Request(self, "POST", "/oauth/login",
                     [NoKwargs EXCEPT
                        !.data = [username |-> a.username,
                                  password |-> a.password,
                                  grant_type |-> "'password'",
                                  client_id |-> "'self'"],
                        !.headers = SetItem(EmptyDict, "Content-Type",
                                      "application/x-www-form-urlencoded")],
                     response)
        data == Json(response.text)
        self1 == [self EXCEPT !.access_token = data["refresh_token"]]
        self2 == [self1 EXCEPT !.refresh_token = data["access_token"]]
    IN  IF r.raised THEN Ran(self, r, Raise(r.error))
        ELSE IF ~IsJson(response.text)
             THEN Ran(self, r, RaiseOther("JSONDecodeError"))
        ELSE IF {"access_token", "refresh_token", "username"}
                    \subseteq DOMAIN data
             THEN Ran(self2, r, Return(data))
        ELSE Ran(self, r, RaiseOther("KeyError"))

\* login(username, password)
LoginRun(self, a, response) ==
    LET r == Request(self, "POST", "/oauth/login",
                     [NoKwargs EXCEPT
                        !.data = [username |-> a.username,
                                  password |-> a.password,
                                  grant_type |-> "'password'",
                                  client_id |-> "'self'"],
                        !.headers = SetItem(EmptyDict, "Content-Type",
                                      "application/x-www-form-urlencoded")],
                     response)
        data == Json(response.text)
        self1 == [self EXCEPT !.access_token = data["access_token"]]
        self2 == [self1 EXCEPT !.refresh_token = data["refresh_token"]]
    IN  IF r.raised THEN Ran(self, r, Raise(r.error))
        ELSE IF ~IsJson(response.text)
             THEN Ran(self, r, RaiseOther("JSONDecodeError"))
        ELSE IF "access_token" \notin DOMAIN data
             THEN Ran(self, r, RaiseOther("KeyError"))
        ELSE IF "refresh_token" \notin DOMAIN data
             THEN Ran(self1, r, RaiseOther("KeyError"))
        ELSE IF "username" \notin DOMAIN data
             THEN Ran(self2, r, RaiseOther("KeyError"))
        ELSE Ran(self2, r, Return(data))

\* get_user()
GetUserRun(self, a, response) ==
    LET r == Request(self, "GET", "/api/user", NoKwargs, response)
    IN  Ran(self, r, JsonOutcome(r))

---------------------------------------------------------------------------
(* Events *)

\* params of get_events
GetEventsParams(a) ==
    LET p0 == EmptyDict
        p1 == SetIf(IsNotNone(a.start), p0, "start", a.start)
        p2 == SetIf(IsNotNone(a.end), p1, "end", a.end)
        p3 == SetIf(IsNotNone(a.tags), p2, "tags", a.tags)
        p4 == SetIf(IsNotNone(a.places), p3, "places", a.places)
        p5 == SetIf(IsNotNone(a.query), p4, "query", a.query)
        p6 == SetIf(IsNotNone(a.max), p5, "max", a.max)
        p7 == SetIf(IsNotNone(a.page), p6, "page", a.page)
        p8 == SetIf(IsNotNone(a.show_recurrent), p7,
                    "show_recurrent", a.show_recurrent)
        p9 == SetIf(IsNotNone(a.show_multidate), p8,
                    "show_multidate", a.show_multidate)
    IN  p9

\* get_events(start, end, tags, places, query, max, page, show_recurrent,
\*            show_multidate)
GetEventsRun(self, a, response) ==
    LET r == Request(self, "GET", "/api/events",
                     [NoKwargs EXCEPT !.params = GetEventsParams(a)], response)
    IN  Ran(self, r, JsonOutcome(r))

\* get_event(slug)
GetEventRun(self, a, response) ==
    LET r == Request(self, "GET", "/api/event/detail/" \o a.slug,
                     NoKwargs, response)
    IN  Ran(self, r, JsonOutcome(r))

\* the optional fields create_event and update_event share
EventOptionalData(a, d0) ==
    LET d1 == SetIf(IsNotNone(a.description), d0, "description", a.description)
        d2 == SetIf(IsNotNone(a.end_datetime), d1,
                    "end_datetime", a.end_datetime)
        d3 == SetIf(IsNotNone(a.place_latitude), d2,
                    "place_latitude", a.place_latitude)
        d4 == SetIf(IsNotNone(a.place_longitude), d3,
                    "place_longitude", a.place_longitude)
        d5 == SetIf(IsNotNone(a.tags), d4, "tags[]", a.tags)
        d6 == SetIf(IsNotNone(a.online_locations), d5,
                    "online_locations[]", a.online_locations)
        d7 == SetIf(IsNotNone(a.image_url), d6, "image_url", a.image_url)
        d8 == SetIf(IsNotNone(a.multidate), d7, "multidate", a.multidate)
        d9 == SetIf(IsNotNone(a.recurrent), d8,
                    "recurrent", JsonDumps(a.recurrent))
    IN  d9

\* variant: no file part at all when there is no image to send
EventFilesWithoutPlaceholder(image) ==
    IF Truthy(image) THEN SetItem(EmptyDict, "image", image)
    ELSE EmptyDict

\* files = dict(image=image) if image else {'placeholder': ('', '')}
EventFiles(image) ==
    IF Truthy(image) THEN SetItem(EmptyDict, "image", image)
    ELSE SetItem(EmptyDict, "placeholder", "('', '')")

\* data of create_event
CreateEventData(a) ==
    EventOptionalData(a,
        [title |-> a.title, start_datetime |-> a.start_datetime,
         place_name |-> a.place_name, place_address |-> a.place_address])

\* create_event(title, start_datetime, place_name, place_address, ...)
CreateEventRun(self, a, response) ==
    LET r == Request(self, "POST", "/api/event",
                     [NoKwargs EXCEPT !.data = CreateEventData(a),
                                      !.files = EventFiles(a.image)],
                     response)
    IN  Ran(self, r, JsonOutcome(r))

\* data of update_event
UpdateEventData(a) ==
    LET d0 == [id |-> a.event_id]
        d1 == SetIf(IsNotNone(a.title), d0, "title", a.title)
        d2 == SetIf(IsNotNone(a.start_datetime), d1,
                    "start_datetime", a.start_datetime)
        d3 == SetIf(IsNotNone(a.place_name), d2, "place_name", a.place_name)
        d4 == SetIf(IsNotNone(a.place_address), d3,
                    "place_address", a.place_address)
    IN  EventOptionalData(a, d4)

\* update_event(event_id, ...)
UpdateEventRun(self, a, response) ==
    LET r == Request(self, "PUT", "/api/event",
                     [NoKwargs EXCEPT !.data = UpdateEventData(a),
                                      !.files = EventFiles(a.image)],
                     response)
    IN  Ran(self, r, JsonOutcome(r))

\* delete_event(event_id)
DeleteEventRun(self, a, response) ==
    LET r == Request(self, "DELETE", "/api/event/" \o a.event_id,
                     NoKwargs, response)
    IN  Ran(self, r, NoneOutcome(r))

\* confirm_event(event_id)
ConfirmEventRun(self, a, response) ==
    LET r == Request(self, "PUT", "/api/event/confirm/" \o a.event_id,
                     NoKwargs, response)
    IN  Ran(self, r, NoneOutcome(r))

---------------------------------------------------------------------------
(* Places, pages *)

\* search_place(query)
SearchPlaceRun(self, a, response) ==
    LET r == Request(self, "GET", "/api/place",
                     [NoKwargs EXCEPT !.params = [search |-> a.query]],
                     response)
    IN  Ran(self, r, JsonOutcome(r))

\* variant of GetPlaceRun: an error of the search becomes None
GetPlaceRunSwallowing(self, a, response) ==
    LET run == SearchPlaceRun(self, [query |-> a.place_name], response)
        results == run.outcome.value[1]
    IN  [run EXCEPT !.outcome =
            IF run.outcome.kind = "return" /\ results # <<>>
            THEN Return(results[1]) ELSE ReturnNone]

\* get_place(place_name)
GetPlaceRun(self, a, response) ==
    LET run == SearchPlaceRun(self, [query |-> a.place_name], response)
        results == run.outcome.value[1]
    IN  IF run.outcome.kind = "raise" THEN run
        ELSE [run EXCEPT !.outcome =
                 IF results # <<>> THEN Return(results[1]) ELSE ReturnNone]

\* variant of GetPlaceEventsRun: every GancioError becomes None
GetPlaceEventsRunSwallowing(self, a, response) ==
    LET r == Request(self, "GET", "/api/place/" \o a.place_name,
                     NoKwargs, response)
    IN  IF r.raised THEN Ran(self, r, ReturnNone)
        ELSE Ran(self, r, JsonOutcome(r))

\* variant of GetPlaceEventsRun: a 404 is retried once before giving up
GetPlaceEventsRunRetrying(self, a, response) ==
    LET r == Request(self, "GET", "/api/place/" \o a.place_name,
                     NoKwargs, response)
        once == Ran(self, r, IF r.raised THEN Raise(r.error)
                             ELSE JsonOutcome(r))
    IN  IF r.raised /\ r.error.status_code = 404
        THEN [once EXCEPT !.sent = @ \o <<r.request>>,
                          !.received = @ \o <<r.response>>,
                          !.outcome = ReturnNone]
        ELSE once

\* get_place_events(place_name)
GetPlaceEventsRun(self, a, response) ==
    LET r == Request(self, "GET", "/api/place/" \o a.place_name,
                     NoKwargs, response)
    IN  IF r.raised
        THEN IF r.error.status_code = 404
             THEN Ran(self, r, ReturnNone)
             ELSE Ran(self, r, Raise(r.error))
        ELSE Ran(self, r, JsonOutcome(r))

\* data of update_page
UpdatePageData(a) ==
    LET d0 == [content |-> a.content]
        d1 == SetIf(IsNotNone(a.title), d0, "title", a.title)
        d2 == SetIf(IsNotNone(a.visible), d1, "visible", a.visible)
    IN  d2

\* update_page(page_id, content, title, visible)
UpdatePageRun(self, a, response) ==
    LET r == Request(self, "PUT", "/api/pages/" \o a.page_id,
                     [NoKwargs EXCEPT !.data = UpdatePageData(a)], response)
    IN  Ran(self, r, JsonOutcome(r))

---------------------------------------------------------------------------
(* Arguments of the calls *)

\* the type of each optional parameter
ParamType ==
    [start |-> "int", end |-> "int", tags |-> "list", places |-> "list",
     query |-> "str", max |-> "int", page |-> "int",
     show_recurrent |-> "bool", show_multidate |-> "bool",
     title |-> "str", start_datetime |-> "int", place_name |-> "str",
     place_address |-> "str", description |-> "str", end_datetime |-> "int",
     place_latitude |-> "float", place_longitude |-> "float",
     online_locations |-> "list", image |-> "bytes", image_url |-> "str",
     multidate |-> "bool", recurrent |-> "dict", visible |-> "bool"]

\* a falsy and a truthy Python literal of each type
FalsyOf ==
    [int |-> "0", float |-> "0.0", str |-> "''", list |-> "[]",
     bool |-> "False", dict |-> "{}", bytes |-> "b''"]
TruthyOf ==
    [int |-> "7", float |-> "52.3", str |-> "'x'", list |-> "['x']",
     bool |-> "True", dict |-> "{'frequency': '1w'}", bytes |-> "<BytesIO>"]

GetEventsOptional ==
    {"start", "end", "tags", "places", "query", "max", "page",
     "show_recurrent", "show_multidate"}
EventOptional ==
    {"description", "end_datetime", "place_latitude", "place_longitude",
     "tags", "online_locations", "image", "image_url", "multidate",
     "recurrent"}
CreateEventRequired ==
    [title |-> "'E'", start_datetime |-> "7", place_name |-> "'P'",
     place_address |-> "'A'"]
UpdateEventOptional ==
    {"title", "start_datetime", "place_name", "place_address"}
        \cup EventOptional
UpdatePageOptional == {"title", "visible"}

\* the call that passes the required arguments req, supplies the optional
\* parameters in S (those in F with a falsy value) and omits the others
ArgVector(req, optional, S, F) ==
    [p \in DOMAIN req \cup optional |->
        IF p \in DOMAIN req THEN req[p]
        ELSE IF p \notin S THEN None
        ELSE IF p \in F THEN FalsyOf[ParamType[p]]
        ELSE TruthyOf[ParamType[p]]]

\* the sets of optional parameters a call supplies: every subset, or (few)
\* none and all
SuppliedSets(every, optional) ==
    IF every THEN SUBSET optional ELSE {{}, optional}

\* the supplied parameters that get a falsy value: at most MaxFalsy of
\* them, or (few) none and all
FalsySets(every, S) ==
    IF every THEN SubsetsUpTo(S, MaxFalsy) ELSE {{}, S}

NoArgs == EmptyDict

---------------------------------------------------------------------------
(* The caller *)

\* no login has returned yet
NoLogin == [logged |-> FALSE, access_token |-> "", refresh_token |-> ""]

\* the tokens of the response a login returned
LoginOf(response) ==
    [logged |-> TRUE,
     access_token |-> response.text.fields["access_token"],
     refresh_token |-> response.text.fields["refresh_token"]]

\* the state after Gancio(u, token)
Constructed(u, token) ==
    LET self == Gancio(u, token)
    IN  /\ urlArg = u
        /\ url = self.url
        /\ access_token = self.access_token
        /\ refresh_token = self.refresh_token
        /\ pc = "ready"
        /\ op = ""
        /\ args = NoArgs
        /\ sent = <<>>
        /\ received = <<>>
        /\ outcome = NoOutcome
        /\ lastLogin = NoLogin

Init == \E u \in Urls, token \in CtorTokens : Constructed(u, token)

\* the caller calls operation `name` with arguments a; run is what the
\* method does from the current client state
Call(name, a, run) ==
    /\ pc = "ready"
    /\ pc' = "done"
    /\ op' = name
    /\ args' = a
    /\ url' = run.self.url
    /\ access_token' = run.self.access_token
    /\ refresh_token' = run.self.refresh_token
    /\ sent' = run.sent
    /\ received' = run.received
    /\ outcome' = run.outcome
    /\ lastLogin' = IF name = "login" /\ run.outcome.kind = "return"
                    THEN LoginOf(run.received[1]) ELSE lastLogin
    /\ UNCHANGED urlArg

\* the caller takes the result and is ready for its next call
Continue ==
    /\ pc = "done"
    /\ pc' = "ready"
    /\ op' = ""
    /\ args' = NoArgs
    /\ sent' = <<>>
    /\ received' = <<>>
    /\ outcome' = NoOutcome
    /\ UNCHANGED <<urlArg, url, access_token, refresh_token, lastLogin>>

SetupDb ==
    /\ pc = "ready"
    /\ \E a \in [dialect : {"'sqlite'", "'postgres'"},
                 storage : {"'/opt/gancio/db.sqlite'"}],
          response \in Responses(GenericBodies) :
           Call("setup_db", a, SetupDbRun(Self, a, response))

SetupRestart ==
    /\ pc = "ready"
    /\ \E response \in Responses(GenericBodies) :
           Call("setup_restart", NoArgs, SetupRestartRun(Self, NoArgs, response))

Login ==
    /\ pc = "ready"
    /\ \E a \in [username : {"'admin'"}, password : {"'pw'"}],
          response \in Responses(LoginBodies) :
           Call("login", a, LoginRun(Self, a, response))

GetUser ==
    /\ pc = "ready"
    /\ \E response \in Responses(GenericBodies) :
           Call("get_user", NoArgs, GetUserRun(Self, NoArgs, response))

GetEvents(every, R) ==
    /\ pc = "ready"
    /\ \E S \in SuppliedSets(every, GetEventsOptional) :
       \E F \in FalsySets(every, S), response \in R :
          LET a == ArgVector(EmptyDict, GetEventsOptional, S, F)
          IN  Call("get_events", a, GetEventsRun(Self, a, response))

GetEvent ==
    /\ pc = "ready"
    /\ \E a \in [slug : {"e-1"}], response \in Responses(GenericBodies) :
           Call("get_event", a, GetEventRun(Self, a, response))

CreateEvent(every, R) ==
    /\ pc = "ready"
    /\ \E S \in SuppliedSets(every, EventOptional) :
       \E F \in FalsySets(every, S), response \in R :
          LET a == ArgVector(CreateEventRequired, EventOptional, S, F)
          IN  Call("create_event", a, CreateEventRun(Self, a, response))

UpdateEvent(every, R) ==
    /\ pc = "ready"
    /\ \E S \in SuppliedSets(every, UpdateEventOptional) :
       \E F \in FalsySets(every, S), response \in R :
          LET a == ArgVector([event_id |-> "7"], UpdateEventOptional, S, F)
          IN  Call("update_event", a, UpdateEventRun(Self, a, response))

DeleteEvent ==
    /\ pc = "ready"
    /\ \E a \in [event_id : {"7"}], response \in Responses(GenericBodies) :
           Call("delete_event", a, DeleteEventRun(Self, a, response))

ConfirmEvent ==
    /\ pc = "ready"
    /\ \E a \in [event_id : {"7"}], response \in Responses(GenericBodies) :
           Call("confirm_event", a, ConfirmEventRun(Self, a, response))

SearchPlace ==
    /\ pc = "ready"
    /\ \E a \in [query : PlaceNames], response \in Responses(PlaceBodies) :
           Call("search_place", a, SearchPlaceRun(Self, a, response))

GetPlace ==
    /\ pc = "ready"
    /\ \E a \in [place_name : PlaceNames], response \in Responses(PlaceBodies) :
           Call("get_place", a, GetPlaceRun(Self, a, response))

GetPlaceEvents ==
    /\ pc = "ready"
    /\ \E a \in [place_name : PlaceNames],
          response \in Responses(GenericBodies) :
           Call("get_place_events", a, GetPlaceEventsRun(Self, a, response))

UpdatePage(every, R) ==
    /\ pc = "ready"
    /\ \E S \in SuppliedSets(every, UpdatePageOptional) :
       \E F \in FalsySets(every, S), response \in R :
          LET a == ArgVector([page_id |-> "1", content |-> "'<p>'"], UpdatePageOptional, S, F)
          IN  Call("update_page", a, UpdatePageRun(Self, a, response))

Next ==
    \/ SetupDb
    \/ SetupRestart
    \/ Login
    \/ GetUser
    \/ GetEvents(FALSE, Responses(GenericBodies))
    \/ GetEvent
    \/ CreateEvent(FALSE, Responses(GenericBodies))
    \/ UpdateEvent(FALSE, Responses(GenericBodies))
    \/ DeleteEvent
    \/ ConfirmEvent
    \/ SearchPlace
    \/ GetPlace
    \/ GetPlaceEvents
    \/ UpdatePage(FALSE, Responses(GenericBodies))
    \/ Continue

\* any sequence of calls on one client
Spec == Init /\ [][Next]_vars

---------------------------------------------------------------------------
(* The payloads alone: one client, every combination of optional arguments *)

InitPayload == Constructed(<<"h">>, None)

PayloadResponses == {[status_code |-> 200, text |-> ObjectBody([id |-> "7"])]}

NextPayload ==
    \/ GetEvents(TRUE, PayloadResponses)
    \/ CreateEvent(TRUE, PayloadResponses)
    \/ UpdateEvent(TRUE, PayloadResponses)
    \/ UpdatePage(TRUE, PayloadResponses)
    \/ Continue

SpecPayload == InitPayload /\ [][NextPayload]_vars

---------------------------------------------------------------------------
(* Properties *)

\* the request and the response of a finished call
TheRequest == sent[1]
TheResponse == received[1]

\* the call ended by raising GancioError built from TheResponse
RaisedGancioError ==
    /\ outcome.kind = "raise"
    /\ outcome.exc = "GancioError"
    /\ outcome.error[1].status_code = TheResponse.status_code
    /\ outcome.error[1].response_body = TheResponse.text

\* C1 as stated: whatever the operation, a response with status >= 400 makes
\* the operation raise GancioError with exactly that status code and body,
\* and a response with status < 400 raises no GancioError.
C1_EveryOperationRaises ==
    pc = "done" =>
        /\ TheResponse.status_code >= 400 => RaisedGancioError
        /\ TheResponse.status_code < 400 => outcome.exc # "GancioError"

\* C1 amended: as C1, except that get_place_events answers a 404 by
\* returning None instead of raising.
C1_RaisesExceptPlaceEvents404 ==
    pc = "done" =>
        /\ (/\ TheResponse.status_code >= 400
            /\ ~(op = "get_place_events" /\ TheResponse.status_code = 404))
           => RaisedGancioError
        /\ (op = "get_place_events" /\ TheResponse.status_code = 404)
           => outcome = ReturnNone
        /\ TheResponse.status_code < 400 => outcome.exc # "GancioError"

C1_Witness ==
    /\ pc = "done"
    /\ op = "update_event"
    /\ TheResponse.status_code = 400
    /\ TheResponse.text = ObjectBody([id |-> "7"])
    /\ RaisedGancioError

\* C5: get_place_events returns None on a 404, returns the decoded body on a
\* status below 400, and on every other status >= 400 raises the GancioError
\* of that response, status code and body unchanged.
C5_PlaceEvents ==
    (pc = "done" /\ op = "get_place_events") =>
        /\ TheResponse.status_code = 404 => outcome = ReturnNone
        /\ (TheResponse.status_code < 400 /\ IsJson(TheResponse.text))
           => /\ outcome.kind = "return"
              /\ outcome.value = <<TheResponse.text.fields>>
        /\ (TheResponse.status_code >= 400 /\ TheResponse.status_code # 404)
           => RaisedGancioError

C5_Witness ==
    /\ pc = "done"
    /\ op = "get_place_events"
    /\ TheResponse.status_code = 404
    /\ outcome.kind = "return"
    /\ outcome.value = <<>>

\* what search_place(place_name) does on the response get_place received
SearchOfGetPlace ==
    SearchPlaceRun(Self, [query |-> args.place_name], TheResponse)

NamesFound ==
    {TheResponse.text.items[i].name : i \in DOMAIN TheResponse.text.items}

\* C7: a place get_place returns has exactly the name asked for, and
\* get_place returns None when no place found has exactly that name.
C7_ExactName ==
    (pc = "done" /\ op = "get_place" /\ outcome.kind = "return") =>
        /\ outcome.value # <<>> => outcome.value[1].name = args.place_name
        /\ args.place_name \notin NamesFound => outcome.value = <<>>

\* C10: every call of a public operation issues exactly one HTTP request.
C10_OneRequest ==
    pc = "done" => (Len(sent) = 1 /\ Len(received) = 1)

C10_Witness ==
    /\ pc = "done"
    /\ op = "get_place_events"
    /\ TheResponse.status_code = 404
    /\ Len(sent) = 1
    /\ outcome = ReturnNone

\* the path each operation requests
OperationPath ==
    CASE op = "setup_db" -> "/api/setup/db"
      [] op = "setup_restart" -> "/api/setup/restart"
      [] op = "login" -> "/oauth/login"
      [] op = "get_user" -> "/api/user"
      [] op = "get_events" -> "/api/events"
      [] op = "get_event" -> "/api/event/detail/" \o args.slug
      [] op = "create_event" -> "/api/event"
      [] op = "update_event" -> "/api/event"
      [] op = "delete_event" -> "/api/event/" \o args.event_id
      [] op = "confirm_event" -> "/api/event/confirm/" \o args.event_id
      [] op = "search_place" -> "/api/place"
      [] op = "get_place" -> "/api/place"
      [] op = "get_place_events" -> "/api/place/" \o args.place_name
      [] op = "update_page" -> "/api/pages/" \o args.page_id

\* every request goes to the stored URL followed by the operation's path
RequestsUseStoredUrl ==
    pc = "done" =>
        \A i \in DOMAIN sent : sent[i].url = url \o <<OperationPath>>

\* C8 as stated: the stored URL is the constructor's URL with exactly one
\* trailing slash removed if it ends in one (so "h//" is stored as "h/"),
\* and every request URL is the stored URL followed by the operation's path.
C8_StripsOneSlash ==
    /\ url = IF urlArg # <<>> /\ urlArg[Len(urlArg)] = "/"
             THEN SubSeq(urlArg, 1, Len(urlArg) - 1) ELSE urlArg
    /\ RequestsUseStoredUrl

\* C8 amended: the stored URL is the constructor's URL with all its trailing
\* slashes removed (it is a prefix of it, what was cut is slashes only, and
\* it does not end in a slash), and every request URL is the stored URL
\* followed by the operation's path.
C8_StripsAllSlashes ==
    /\ \E n \in 0..Len(urlArg) :
          /\ url = SubSeq(urlArg, 1, n)
          /\ \A i \in (n + 1)..Len(urlArg) : urlArg[i] = "/"
    /\ url = <<>> \/ url[Len(url)] # "/"
    /\ RequestsUseStoredUrl

C8_Witness ==
    /\ Len(urlArg) >= 2
    /\ urlArg[Len(urlArg)] = "/"
    /\ urlArg[Len(urlArg) - 1] = "/"
    /\ Len(url) <= Len(urlArg) - 2
    /\ pc = "done"
    /\ TheRequest.url = url \o <<"/api/user">>

CallCarries(h) ==
    pc' = "done" =>
        IF h = None THEN "Authorization" \notin DOMAIN sent'[1].headers
        ELSE /\ "Authorization" \in DOMAIN sent'[1].headers
             /\ sent'[1].headers["Authorization"] = h

\* login's own Content-Type header is still in the request
LoginKeepsContentType ==
    (pc' = "done" /\ op' = "login") =>
        /\ "Content-Type" \in DOMAIN sent'[1].headers
        /\ sent'[1].headers["Content-Type"]
              = "application/x-www-form-urlencoded"

\* a login returned in this step
LoginReturned == pc' = "done" /\ op' = "login" /\ outcome'.kind = "return"

\* after a login that returned, the client holds the tokens of its response
LoginStoresTokens ==
    LoginReturned =>
        /\ access_token' = received'[1].text.fields["access_token"]
        /\ refresh_token' = received'[1].text.fields["refresh_token"]

C3_BearerWheneverSet ==
    [][/\ CallCarries(IF access_token = None THEN None
                      ELSE "Bearer " \o access_token)
       /\ LoginKeepsContentType]_vars

\* C3 amended: the request of every call carries Authorization: Bearer
\* <current access token> when the client's token is a non-empty string,
\* and no Authorization header when it is None or the empty string; login's
\* Content-Type header is kept.
C3_BearerWhenNonEmpty ==
    [][/\ CallCarries(IF access_token = None \/ access_token = "" THEN None
                      ELSE "Bearer " \o access_token)
       /\ LoginKeepsContentType]_vars

C3_Witness ==
    /\ pc = "done"
    /\ op = "login"
    /\ lastLogin.logged
    /\ outcome.kind = "raise"
    /\ "Content-Type" \in DOMAIN TheRequest.headers
    /\ "Authorization" \in DOMAIN TheRequest.headers
    /\ TheRequest.headers["Authorization"] = "Bearer t2"

\* the payload whose keys C4 is about, and the parameters behind it
Payload == IF op = "get_events" THEN TheRequest.params ELSE TheRequest.data
RequiredKeys ==
    CASE op = "get_events" -> {}
      [] op = "create_event" ->
            {"title", "start_datetime", "place_name", "place_address"}
      [] op = "update_event" -> {"id"}
      [] op = "update_page" -> {"content"}
OptionalParams ==
    CASE op = "get_events" -> GetEventsOptional
      [] op = "create_event" -> EventOptional
      [] op = "update_event" -> UpdateEventOptional
      [] op = "update_page" -> UpdatePageOptional
Supplied == {p \in OptionalParams : args[p] # None}

\* the key a parameter is sent under (lists of an event as array fields)
KeyOf(p) ==
    IF op \in {"create_event", "update_event"}
          /\ p \in {"tags", "online_locations"}
    THEN p \o "[]" ELSE p
PayloadOps == {"get_events", "create_event", "update_event", "update_page"}

\* C4 as stated: the payload's keys are exactly the required keys plus one
\* key for each optional parameter that was supplied (not None), falsy or
\* not, and none for an omitted one.
C4_KeyPerSuppliedParameter ==
    (pc = "done" /\ op \in PayloadOps) =>
        DOMAIN Payload = RequiredKeys \cup {KeyOf(p) : p \in Supplied}

\* C4 amended: as C4 for every optional parameter except image, which is
\* never a key of the data payload (it is sent as a file part).
C4_KeyPerSuppliedDataParameter ==
    (pc = "done" /\ op \in PayloadOps) =>
        DOMAIN Payload =
            RequiredKeys \cup {KeyOf(p) : p \in Supplied \ {"image"}}

C4_Witness ==
    /\ pc = "done"
    /\ op = "update_event"
    /\ args.title = "''"
    /\ args.tags = "['x']"
    /\ args.image = "<BytesIO>"
    /\ Supplied = {"title", "tags", "image"}
    /\ DOMAIN Payload = {"id", "title", "tags[]"}
    /\ Payload["title"] = "''"

\* the file parts of an event request; requests encodes a request as
\* multipart/form-data exactly when its files are not empty
EventOps == {"create_event", "update_event"}
Files == TheRequest.files
Multipart == Files # EmptyDict
ImagePart == SetItem(EmptyDict, "image", args.image)
PlaceholderPart == SetItem(EmptyDict, "placeholder", "('', '')")
OneFilePartNoImageInData ==
    /\ Cardinality(DOMAIN Files) = 1
    /\ Multipart
    /\ "image" \notin DOMAIN TheRequest.data

\* C11 as stated: every create_event and update_event request carries
\* exactly one file part; it is the image, under the key image, when an
\* image was supplied (not None), and the placeholder with empty file name
\* and empty content when none was; image is never a key of the data.
C11_ImagePartWhenSupplied ==
    (pc = "done" /\ op \in EventOps) =>
        /\ OneFilePartNoImageInData
        /\ args.image # None => Files = ImagePart
        /\ args.image = None => Files = PlaceholderPart

\* C11 amended: as C11, but the part is the image only when the supplied
\* image is truthy; a supplied image that is falsy (empty bytes) is
\* replaced by the placeholder, as if no image had been supplied.
C11_ImagePartWhenTruthy ==
    (pc = "done" /\ op \in EventOps) =>
        /\ OneFilePartNoImageInData
        /\ Truthy(args.image) => Files = ImagePart
        /\ ~Truthy(args.image) => Files = PlaceholderPart

C11_Witness ==
    /\ pc = "done"
    /\ op = "create_event"
    /\ args.image = "<BytesIO>"
    /\ args.description = None
    /\ Files = ("image" :> "<BytesIO>")
    /\ "title" \in DOMAIN TheRequest.data

\* a login call that ended by raising, whatever the exception
LoginRaised == pc' = "done" /\ op' = "login" /\ outcome'.kind = "raise"

\* the two tokens held after the step are those of one login response, or
\* no login has returned and there is no refresh token
TokensOfOneLogin ==
    IF lastLogin'.logged
    THEN /\ access_token' = lastLogin'.access_token
         /\ refresh_token' = lastLogin'.refresh_token
    ELSE refresh_token' = None

\* C12 as stated: a login call that raises (a failure status, or a success
\* response whose body lacks access_token or refresh_token) leaves the
\* access token and the refresh token as they were before the call, so the
\* two tokens held always come from the same login response, or no login
\* has stored anything and there is no refresh token.
C12_RaisingLoginKeepsTokens ==
    [][/\ LoginRaised => UNCHANGED <<access_token, refresh_token>>
       /\ TokensOfOneLogin]_vars

====
